---- MODULE Spec2Model ----
(***************************************************************************)
(* groundstate: the observable Store (state + callbacks) and its           *)
(* update/notify protocol.                                                 *)
(*                                                                         *)
(* Store.setState runs synchronously and calls user callbacks from inside  *)
(* its for...of loop; a callback may subscribe, unsubscribe, throw or call *)
(* setState again.  The loop is therefore modelled step by step: `stack`   *)
(* holds one frame per setState call in progress (its locals nextState and *)
(* prevState and the position of the array iterator), and one action is    *)
(* one callback invocation together with everything the callback does.     *)
(* The fields update, before, snap, invoked, added, removedSelf,           *)
(* removedOther, nested and status of a frame, `finished` (the frame of    *)
(* the call that the last step ended, if it ended one), `handles[h].st`,   *)
(* `handles[h].last` and `op` (the last operation, with what it saw        *)
(* before it ran) are history variables: they record what the program did  *)
(* and never influence it.                                                 *)
(*                                                                         *)
(* The second part is the React hook useStore(store, shouldUpdate).  Its   *)
(* state is `stores` (state and callbacks of each store), `comps` (per     *)
(* component: the hook's cells, the arguments and the result of the last   *)
(* render, the dependencies and the subscription of the last effect run)   *)
(* and the history variable `hop` (the last step).  React's part is what   *)
(* the hook relies on: a render runs the component function, the effects   *)
(* of a render run before the next render of the component, an effect      *)
(* whose dependencies changed runs the previous cleanup first, unmounting  *)
(* runs the pending cleanup, and setRevision re-renders unless the value   *)
(* is the one held.  Math.random() is any of the values in Randoms, the    *)
(* one held included.  The callbacks of useStore only call setRevision,    *)
(* so a notification round on a store is one step there.                   *)
(***************************************************************************)
EXTENDS Integers, Sequences, FiniteSets, TLC

\* ---------------------------------------------------------------- bounds
MaxVal == 1          \* state values are 0..MaxVal
MaxSubs == 3         \* subscribe calls in one behaviour
MaxDepth == 2        \* setState calls in progress at once (reentrancy)

Values == 0..MaxVal
Callbacks == {"A", "B"}
Updaters == {"inc"}

\* The argument of setState: a plain value or an updater function.
Updates ==
    [kind : {"value"}, v : Values, f : {"none"}]
        \cup [kind : {"fn"}, v : {0}, f : Updaters]

VARIABLES state, callbacks, handles, stack, finished, op,
          stores, comps, hop

\* The variables of one Store used directly (first part of the module) and
\* those of the useStore hook (second part).
storeVars == <<state, callbacks, handles, stack, finished, op>>

hookVars == <<stores, comps, hop>>

vars == <<state, callbacks, handles, stack, finished, op, stores, comps, hop>>

\* ------------------------------------------------------- pure helpers
Range(s) == {s[k] : k \in 1..Len(s)}

Count(s, x) == Cardinality({k \in 1..Len(s) : s[k] = x})

Front(s) == SubSeq(s, 1, Len(s) - 1)

\* Array.prototype.splice(i, 1) (1-based position i).
Splice(s, i) == SubSeq(s, 1, i - 1) \o SubSeq(s, i + 1, Len(s))

\* A user-supplied updater (state: T) => T; "inc" is
\* state => (state + 1) % (MaxVal + 1), which stays within Values.
ApplyUpdater(f, v) == (v + 1) % (MaxVal + 1)

\* Faulty variant: the instanceof test inverted, so a plain value is never taken.
ComputeNextWrong(update, st) ==
    IF update.kind = "fn" THEN update.v ELSE st

\* `update instanceof Function ? update(this.state) : update`
ComputeNext(update, st) ==
    IF update.kind = "fn" THEN ApplyUpdater(update.f, st) ELSE update.v

\* The loop of the unsubscribe closure: i from length-1 down to 0, splicing
\* out every entry that is the closure's callback.
RECURSIVE UnsubLoop(_, _, _)
UnsubLoop(cbs, cb, i) ==
    IF i < 1 THEN cbs
    ELSE UnsubLoop(IF cbs[i] = cb THEN Splice(cbs, i) ELSE cbs, cb, i - 1)

\* Array.prototype.indexOf (1-based; 0 when absent).
IndexOf(s, x) ==
    IF \E k \in 1..Len(s) : s[k] = x
    THEN CHOOSE k \in 1..Len(s) : s[k] = x /\ \A j \in 1..(k - 1) : s[j] # x
    ELSE 0

\* Faulty variant: `if (i >= 0) splice(i, 1)` with i = indexOf(callback): only the
\* first entry goes.
RemoveFirstOnly(cbs, cb) ==
    IF IndexOf(cbs, cb) = 0 THEN cbs ELSE Splice(cbs, IndexOf(cbs, cb))

\* Faulty variant: the loop, followed by an unguarded splice(indexOf(callback), 1):
\* indexOf is then -1 and splice(-1, 1) removes the last entry.
RemoveThenPop(cbs, cb) ==
    IF UnsubLoop(cbs, cb, Len(cbs)) = <<>> THEN <<>>
    ELSE Front(UnsubLoop(cbs, cb, Len(cbs)))

\* Faulty variant: the loop run forwards, i from 0 up, splicing as it goes: the
\* entry that slides into position i is never looked at.
RECURSIVE UnsubLoopForward(_, _, _)
UnsubLoopForward(cbs, cb, i) ==
    IF i > Len(cbs) THEN cbs
    ELSE UnsubLoopForward(IF cbs[i] = cb THEN Splice(cbs, i) ELSE cbs, cb, i + 1)

RemoveForward(cbs, cb) == UnsubLoopForward(cbs, cb, 1)

RunUnsubscribe(cbs, cb) == UnsubLoop(cbs, cb, Len(cbs))

\* getState()
getState == state

\* ------------------------------------------------------------- state
NoUpdate == [kind |-> "none", v |-> 0, f |-> "none"]

PlainUpdate(v) == [kind |-> "value", v |-> v, f |-> "none"]

\* History: the last operation.  h: the unsubscribe closure concerned;
\* arg: the argument of the constructor or of setState; len, had, was: the
\* length of the list, the number of entries of the closure's callback and
\* the closure's status before an unsubscribe ran.
Op(name) ==
    [name |-> name, h |-> 0, arg |-> NoUpdate, len |-> 0, had |-> 0,
     was |-> "none"]

UnsubOp(h) ==
    [name |-> "unsubscribe", h |-> h, arg |-> NoUpdate,
     len |-> Len(callbacks), had |-> Count(callbacks, handles[h].cb),
     was |-> handles[h].st]

NoFrame == [status |-> "none"]

\* ------------------------------------------------- useStore: the data
\* useStore(store, shouldUpdate) is called by React components.  Two stores,
\* one value that is not a store, two components; shouldUpdate is false,
\* true or a function, here p1 = (nextState, prevState) =>
\* nextState !== prevState.  p1 is one function object, passed again on
\* every render (it is defined outside the component or kept by
\* useCallback); q1 and q2 are two function objects made from the same
\* function expression written inline in a component, which evaluates to a
\* new object on every render.
MaxRand == 1         \* Math.random() draws are 0..MaxRand

StoreIds == {"s1", "s2"}
NotAStore == "plain"
StoreArgs == StoreIds \cup {NotAStore}
Components == {"c1", "c2"}
ShouldUpdates == {"false", "true", "p1"}
Inlines == {"q1", "q2"}
Predicates == {"p1"} \cup Inlines
Randoms == 0..MaxRand

\* new Store(data)
NewStore(data) == [state |-> data, callbacks |-> <<>>]

\* The dependencies of an effect that has not run, and the absence of a
\* subscription.  A subscription is the callback passed to store.subscribe
\* by one run of the effect: it closes over the component's setRevision and
\* over store and shouldUpdate of the render it belongs to.
NoDeps == [store |-> "none", su |-> "none"]
NoSub == [c |-> "none", store |-> "none", su |-> "none"]

\* A component that is not mounted.  phase: "unmounted", "rendered" (the
\* component function has returned, its effects are still to run) or
\* "committed"; store, su: the arguments of the last render; shown: the
\* state the last render returned; setter: the store the returned setState
\* is bound to; revision: the useState cell; dirty: React has a re-render
\* of the component pending; inited: initedRef.current; deps: the
\* dependencies of the last effect run; sub: the subscription whose cleanup
\* is pending.
Unmounted ==
    [phase |-> "unmounted", store |-> "none", su |-> "none", shown |-> 0,
     setter |-> "none", revision |-> -1, dirty |-> FALSE, inited |-> FALSE,
     deps |-> NoDeps, sub |-> NoSub]

\* History: the last step of a component or of a store.  c: the component;
\* by: who called setState; store: the store concerned; next, prev: the
\* states setState passed on; kicked: the components whose setRevision was
\* called; recomputed: useMemo ran its factory; torn: the subscription a
\* cleanup has ended; from, rev: the dependencies of the last effect run
\* and the revision as an effect found them.
HookOp(name, c) ==
    [name |-> name, c |-> c, by |-> "none", store |-> "none",
     next |-> 0, prev |-> 0, kicked |-> {}, recomputed |-> FALSE,
     torn |-> NoSub, from |-> NoDeps, rev |-> -1]

\* No component has been rendered yet.
HookIdle ==
    /\ stores = [s \in StoreIds |-> NewStore(0)]
    /\ comps = [c \in Components |-> Unmounted]
    /\ hop = HookOp("none", "none")

\* new Store(data)
Init ==
    /\ HookIdle
    /\ \E data \in Values :
          /\ state = data
          /\ op = [Op("init") EXCEPT !.arg = PlainUpdate(data)]
    /\ callbacks = <<>>
    /\ handles = <<>>
    /\ stack = <<>>
    /\ finished = NoFrame

\* Faulty variant: callers that do not wait for the call in progress to return.
IdleOrNot == TRUE

Idle == stack = <<>>

Top == stack[Len(stack)]

\* Faulty variant: this.callbacks.unshift(callback).
DoSubscribeFront(cbs, cb) == <<cb>> \o cbs

\* ------------------------------------------------------------- subscribe
\* this.callbacks.push(callback); return the unsubscribe closure: handle
\* Len(handles) + 1.  A handle is "fresh" until it is called, "spent" once
\* called, and "revived" when its callback is subscribed again after that.
DoSubscribe(cbs, cb) == Append(cbs, cb)

\* History: `last` of a handle is the state the store held when its
\* callback was subscribed, and from the callback's next invocation on the
\* nextState it was last called with; -1 once the callback has been
\* unsubscribed.
HandlesAfterSubscribe(hs, cb) ==
    Append([k \in 1..Len(hs) |->
               IF hs[k].cb = cb /\ hs[k].st = "spent"
               THEN [hs[k] EXCEPT !.st = "revived"]
               ELSE hs[k]],
           [cb |-> cb, st |-> "fresh", last |-> state])

\* History: every call in progress saw the list change under it.
MarkAdded(stk) == [k \in 1..Len(stk) |-> [stk[k] EXCEPT !.added = TRUE]]

MarkRemoved(stk, cb, self) ==
    [k \in 1..Len(stk) |->
        IF self /\ k = Len(stk)
        THEN [stk[k] EXCEPT !.removedSelf = @ \cup {cb}]
        ELSE [stk[k] EXCEPT !.removedOther = TRUE]]

\* History: the closure h has been called; its callback is no longer in
\* the list and no handle of it has a last notification to remember.
Spent(hs, h) ==
    [k \in 1..Len(hs) |->
        IF hs[k].cb = hs[h].cb
        THEN [hs[k] EXCEPT !.st = IF k = h THEN "spent" ELSE @,
                           !.last = -1]
        ELSE hs[k]]

Subscribe(cb) ==
    /\ Idle
    /\ Len(handles) < MaxSubs
    /\ callbacks' = DoSubscribe(callbacks, cb)
    /\ handles' = HandlesAfterSubscribe(handles, cb)
    /\ op' = [Op("subscribe") EXCEPT !.h = Len(handles) + 1]
    /\ finished' = NoFrame
    /\ UNCHANGED <<state, stack, hookVars>>

\* ----------------------------------------------------------- unsubscribe
Unsubscribe(h) ==
    /\ Idle
    /\ callbacks' = RunUnsubscribe(callbacks, handles[h].cb)
    /\ handles' = Spent(handles, h)
    /\ op' = UnsubOp(h)
    /\ finished' = NoFrame
    /\ UNCHANGED <<state, stack, hookVars>>

\* -------------------------------------------------------------- setState
\* prevState = this.state; nextState = update(this.state) or update;
\* this.state = nextState.  The locals live in the frame of the call.
\* Faulty variant: prevState read after this.state has been assigned.
BeginSetStateLate(update, st) ==
    [nextState |-> ComputeNext(update, st),
     prevState |-> ComputeNext(update, st)]

BeginSetState(update, st) ==
    [nextState |-> ComputeNext(update, st), prevState |-> st]

NewFrame(update, guarded) ==
    [i |-> 1, guarded |-> guarded,
     nextState |-> BeginSetState(update, state).nextState,
     prevState |-> BeginSetState(update, state).prevState,
     update |-> update, before |-> state, snap |-> callbacks,
     invoked |-> <<>>, status |-> "running",
     added |-> FALSE, removedSelf |-> {}, removedOther |-> FALSE,
     nested |-> FALSE]

\* setState(update) called from outside any notification round.
SetState(update) ==
    /\ Idle
    /\ state' = BeginSetState(update, state).nextState
    /\ stack' = <<NewFrame(update, FALSE)>>
    /\ op' = [Op("setState") EXCEPT !.arg = update]
    /\ finished' = NoFrame
    /\ UNCHANGED <<callbacks, handles, hookVars>>

\* Faulty variant: an equality short-circuit in front of the loop.
LoopHasNextIfChanged(f) ==
    f.nextState # f.prevState /\ f.i <= Len(callbacks)

\* `for (let callback of this.callbacks)`: the array iterator keeps an index
\* into the live array and compares it with the array's current length on
\* every step.
LoopHasNext(f) == f.i <= Len(callbacks)

InLoop == stack # <<>> /\ LoopHasNext(Top)

Cur == callbacks[Top.i]

\* Faulty variant: callback(this.state, prevState), the state read again for each
\* callback.
CallbackArgsLive(f) == [next |-> state, prev |-> f.prevState]

\* Faulty variant: callback(prevState, nextState).
CallbackArgsSwapped(f) == [next |-> f.prevState, prev |-> f.nextState]

\* callback(nextState, prevState)
CallbackArgs(f) == [next |-> f.nextState, prev |-> f.prevState]

Invocation ==
    [cb |-> Cur, next |-> CallbackArgs(Top).next, prev |-> CallbackArgs(Top).prev]

\* The iterator moves on and the callback is entered.
Advanced ==
    [stack EXCEPT ![Len(stack)].i = @ + 1,
                  ![Len(stack)].invoked = Append(@, Invocation)]

\* The handle of the latest subscribe call for callback cb.
LatestHandle(hs, cb) ==
    CHOOSE h \in 1..Len(hs) :
        /\ hs[h].cb = cb
        /\ \A g \in h + 1..Len(hs) : hs[g].cb # cb

\* History: the callback has been called with nextState.
Delivered ==
    [handles EXCEPT ![LatestHandle(handles, Cur)].last = Invocation.next]

\* The callback returns without touching the store.
InvokePlain ==
    /\ InLoop
    /\ stack' = Advanced
    /\ handles' = Delivered
    /\ op' = Op("invoke")
    /\ finished' = NoFrame
    /\ UNCHANGED <<state, callbacks, hookVars>>

\* The callback calls store.subscribe(cb).
InvokeSubscribe(cb) ==
    /\ InLoop
    /\ Len(handles) < MaxSubs
    /\ stack' = MarkAdded(Advanced)
    /\ callbacks' = DoSubscribe(callbacks, cb)
    /\ handles' = HandlesAfterSubscribe(Delivered, cb)
    /\ op' = [Op("subscribe") EXCEPT !.h = Len(handles) + 1]
    /\ finished' = NoFrame
    /\ UNCHANGED <<state, hookVars>>

\* The callback calls an unsubscribe closure (its own or another one).
InvokeUnsubscribe(h) ==
    /\ InLoop
    /\ stack' = MarkRemoved(Advanced, handles[h].cb, handles[h].cb = Cur)
    /\ callbacks' = RunUnsubscribe(callbacks, handles[h].cb)
    /\ handles' = Spent(Delivered, h)
    /\ op' = UnsubOp(h)
    /\ finished' = NoFrame
    /\ UNCHANGED <<state, hookVars>>

\* The callback calls store.setState(update), inside try/catch or not: a
\* nested round starts and runs to its end before the callback returns.
InvokeSetState(update, guarded) ==
    /\ InLoop
    /\ Len(stack) < MaxDepth
    /\ state' = BeginSetState(update, state).nextState
    /\ stack' = Append([Advanced EXCEPT ![Len(stack)].nested = TRUE],
                       NewFrame(update, guarded))
    /\ handles' = Delivered
    /\ op' = [Op("setState") EXCEPT !.arg = update]
    /\ finished' = NoFrame
    /\ UNCHANGED <<callbacks, hookVars>>

\* An exception leaves setState through every frame up to and including the
\* first one whose caller catches it; nothing in setState catches.  The
\* result is the number of frames left.
RECURSIVE UnwoundFrom(_, _)
UnwoundFrom(stk, k) ==
    IF k = 0 THEN 0
    ELSE IF stk[k].guarded THEN k - 1
    ELSE UnwoundFrom(stk, k - 1)

\* Faulty variant: the loop isolates observers (try/catch around each callback), so
\* no frame is left.
UnwoundIsolated(stk) == Len(stk)

Unwound(stk) == UnwoundFrom(stk, Len(stk))

\* Faulty variant: setState restores prevState when a callback throws.
RolledBack(st, f) == f.prevState

\* Nothing in setState catches or undoes: `this.state = nextState` has run
\* before the loop and stands when the exception leaves the call.
Retained(st, f) == st

\* The callback throws.  `finished` is the outermost call the exception left.
InvokeThrow ==
    /\ InLoop
    /\ state' = Retained(state, Top)
    /\ stack' = SubSeq(Advanced, 1, Unwound(Advanced))
    /\ finished' = IF Unwound(Advanced) < Len(stack)
                   THEN [Advanced[Unwound(Advanced) + 1]
                            EXCEPT !.status = "thrown"]
                   ELSE NoFrame
    /\ handles' = Delivered
    /\ op' = Op("throw")
    /\ UNCHANGED <<callbacks, hookVars>>

\* The iterator is exhausted: setState returns to its caller.
Return ==
    /\ stack # <<>>
    /\ ~LoopHasNext(Top)
    /\ stack' = Front(stack)
    /\ finished' = [Top EXCEPT !.status = "done"]
    /\ op' = Op("return")
    /\ UNCHANGED <<state, callbacks, handles, hookVars>>

\* The store used from outside and by callbacks that do not call setState.
Next ==
    \/ \E cb \in Callbacks : Subscribe(cb)
    \/ \E h \in 1..Len(handles) : Unsubscribe(h)
    \/ \E u \in Updates : SetState(u)
    \/ InvokePlain
    \/ \E cb \in Callbacks : InvokeSubscribe(cb)
    \/ \E h \in 1..Len(handles) : InvokeUnsubscribe(h)
    \/ InvokeThrow
    \/ Return

Spec == Init /\ [][Next]_vars

\* The same with callbacks that call setState (reentrancy).
NextReentrant ==
    \/ Next
    \/ \E u \in Updates, g \in BOOLEAN : InvokeSetState(u, g)

SpecReentrant == Init /\ [][NextReentrant]_vars

\* =============================================================== useStore
\* `if (!isStore(store)) throw ...`.  ./isStore is not among the source
\* files; by the specification (isContainer) it accepts the values that
\* have getState, setState and subscribe: the stores.
IsStore(x) == x \in StoreIds

\* Faulty variant: the state the store was constructed with is returned.
ReadInitial(s) == NewStore(0).state

\* `let state = store.getState()`
ReadState(s) == stores[s].state

\* Faulty variant: store.setState.bind(store) without useMemo, a new function in
\* every render.
MemoAlwaysStale(comp, s) == TRUE

\* useMemo(() => store.setState.bind(store), [store]): the factory runs on
\* the first render and whenever store is not the store of the last render.
MemoStale(comp, s) == comp.phase = "unmounted" \/ comp.store # s

\* The component function up to its return: the hooks of a first render
\* start from their initial values (useState(-1), useRef(false)).
Rendered(comp, s, su) ==
    [(IF comp.phase = "unmounted"
      THEN [Unmounted EXCEPT !.setter = comp.setter] ELSE comp)
        EXCEPT !.phase = "rendered", !.store = s, !.su = su,
               !.shown = ReadState(s),
               !.setter = IF MemoStale(comp, s) THEN s ELSE @,
               !.dirty = FALSE]

\* React calls the component function: on mount, when its parent renders
\* it (with the same or with other arguments) or because setRevision has
\* changed its revision.  React runs the effects of a render before it
\* renders the component again.
Render(c, s, su) ==
    /\ IsStore(s)
    /\ comps[c].phase # "rendered"
    /\ comps' = [comps EXCEPT ![c] = Rendered(comps[c], s, su)]
    /\ hop' = [HookOp("render", c)
                  EXCEPT !.store = s,
                         !.recomputed = MemoStale(comps[c], s)]
    /\ UNCHANGED <<stores, storeVars>>

\* Faulty variant: the cleanup calls the unsubscribe of the store of the latest
\* render instead of the one its effect run subscribed to.
CleanupOnLatestStore(sts, comp) ==
    IF comp.sub = NoSub THEN sts
    ELSE [sts EXCEPT ![comp.store].callbacks = RunUnsubscribe(@, comp.sub)]

\* Faulty variant: the cleanup unsubscribes after a key change only, not when the
\* component is removed.
CleanupOnKeyChangeOnly(sts, comp) ==
    IF comp.sub = NoSub \/ comp.phase = "committed" THEN sts
    ELSE [sts EXCEPT ![comp.sub.store].callbacks =
                         RunUnsubscribe(@, comp.sub)]

\* Faulty variant: the cleanup does not call unsubscribe().
CleanupKeepsSubscription(sts, comp) == sts

\* The effect's cleanup `() => { unsubscribe(); initedRef.current = false; }`,
\* which exists when the effect has subscribed: the stores after it.
CleanupStores(sts, comp) ==
    IF comp.sub = NoSub THEN sts
    ELSE [sts EXCEPT ![comp.sub.store].callbacks =
                         RunUnsubscribe(@, comp.sub)]

\* Faulty variant: the test made by the effect, after the cleanup of the last run.
ThrownAfterCleanup(sts, comp) == CleanupStores(sts, comp)

\* The stores as a call that throws at `if (!isStore(store)) throw ...`
\* leaves them: the statement is the first of the hook, no hook and no
\* effect has run.
Thrown(sts, comp) == sts

\* The component function called with something that is not a store.
RenderThrow(c, x) ==
    /\ ~IsStore(x)
    /\ comps[c].phase # "rendered"
    /\ stores' = Thrown(stores, comps[c])
    /\ hop' = [HookOp("renderThrow", c) EXCEPT !.store = x]
    /\ UNCHANGED <<comps, storeVars>>

\* setRevision(r): React stores r and re-renders the component unless r is
\* the value the cell already holds.
SetRevision(comp, r) ==
    [comp EXCEPT !.revision = r, !.dirty = @ \/ r # comp.revision]

\* [store, shouldUpdate] of the last render.
DepsOf(comp) == [store |-> comp.store, su |-> comp.su]

DepsChanged(comp) == comp.deps # DepsOf(comp)

\* The callback of one effect run.
Closure(c, comp) == [c |-> c, store |-> comp.store, su |-> comp.su]

\* Faulty variant: the cleanup unsubscribes but leaves initedRef.current set.
CleanupKeepsInited(comp) ==
    IF comp.sub = NoSub THEN comp ELSE [comp EXCEPT !.sub = NoSub]

\* The same cleanup: the component after it.
CleanupRef(comp) ==
    IF comp.sub = NoSub THEN comp
    ELSE [comp EXCEPT !.sub = NoSub, !.inited = FALSE]

\* Faulty variant: the early return for a falsy shouldUpdate is missing.
SubscribesAlways(su) == TRUE

\* `if (!shouldUpdate) return;`
Subscribes(su) == su # "false"

\* Faulty variant: the callback calls setRevision only when the state has changed.
RespondsToChangeOnly(su, next, prev) == next # prev

\* Faulty variant: the callback calls setRevision without consulting shouldUpdate.
RespondsAlways(su, next, prev) == TRUE

\* `typeof shouldUpdate !== 'function' || shouldUpdate(nextState, prevState)`
Responds(su, next, prev) == su \notin Predicates \/ next # prev

\* Faulty variant: the effect calls setRevision only while the cell holds its
\* initial value.
SyncOnFirstBindOnly(comp) == comp.revision = -1

\* Faulty variant: the effect subscribes and never calls setRevision itself.
SyncNever(comp) == FALSE

\* `if (!initedRef.current)`
SyncNeeded(comp) == ~comp.inited

\* The effect body, run on a component whose previous cleanup is done.
SetupRef(c, comp, r) ==
    IF ~Subscribes(comp.su) THEN comp
    ELSE IF SyncNeeded(comp)
         THEN SetRevision([comp EXCEPT !.sub = Closure(c, comp),
                                      !.inited = TRUE], r)
         ELSE [comp EXCEPT !.sub = Closure(c, comp)]

SetupStores(sts, c, comp) ==
    IF ~Subscribes(comp.su) THEN sts
    ELSE [sts EXCEPT ![comp.store].callbacks =
                         DoSubscribe(@, Closure(c, comp))]

\* The effect calls setRevision itself.
Syncs(comp) ==
    /\ DepsChanged(comp)
    /\ Subscribes(comp.su)
    /\ SyncNeeded(CleanupRef(comp))

\* React runs the effects of a render: when [store, shouldUpdate] differ
\* from those of the last run (or on mount), the cleanup of the last run
\* and then the effect body.
RunEffects(c) ==
    /\ comps[c].phase = "rendered"
    /\ IF DepsChanged(comps[c])
       THEN /\ \E r \in (IF Syncs(comps[c]) THEN Randoms ELSE {0}) :
                 comps' = [comps EXCEPT ![c] =
                     [SetupRef(c, CleanupRef(comps[c]), r)
                         EXCEPT !.phase = "committed",
                                !.deps = DepsOf(comps[c])]]
            /\ stores' = SetupStores(CleanupStores(stores, comps[c]),
                                     c, comps[c])
       ELSE /\ comps' = [comps EXCEPT ![c].phase = "committed"]
            /\ stores' = stores
    /\ hop' = [HookOp("effect", c)
                  EXCEPT !.kicked = IF Syncs(comps[c]) THEN {c} ELSE {},
                         !.torn = IF DepsChanged(comps[c])
                                  THEN comps[c].sub ELSE NoSub,
                         !.from = comps[c].deps,
                         !.rev = comps[c].revision]
    /\ UNCHANGED storeVars

\* React removes the component: the pending cleanup runs and the hooks'
\* cells are dropped.  The setState the component returned may still be
\* held by its event handlers.
Unmount(c) ==
    /\ comps[c].phase # "unmounted"
    /\ comps' = [comps EXCEPT ![c] =
                    [Unmounted EXCEPT !.setter = comps[c].setter]]
    /\ stores' = CleanupStores(stores, comps[c])
    /\ hop' = [HookOp("unmount", c) EXCEPT !.torn = comps[c].sub]
    /\ UNCHANGED storeVars

\* The callback of a subscription of component c answers the notification
\* (next, prev) with setRevision(Math.random()).
Kicks(cbs, c, next, prev) ==
    \E k \in 1..Len(cbs) :
        /\ cbs[k].c = c
        /\ Responds(cbs[k].su, next, prev)

\* store.setState(update), called by the application ("app") or through
\* the setState that useStore returned to component `by`.  The callbacks
\* are those of useStore, which only call setRevision: the whole
\* notification round is one step; each callback draws its own
\* Math.random().
Mutate(by, s, update) ==
    /\ IF by = "app" THEN TRUE ELSE comps[by].setter = s
    /\ stores' = [stores EXCEPT ![s].state =
                     BeginSetState(update, stores[s].state).nextState]
    /\ LET args == CallbackArgs(BeginSetState(update, stores[s].state))
           kicked == {c \in Components :
                         Kicks(stores[s].callbacks, c, args.next, args.prev)}
       IN  /\ \E draw \in [kicked -> Randoms] :
                 comps' = [c \in Components |->
                     IF c \in kicked
                     THEN SetRevision(comps[c], draw[c])
                     ELSE comps[c]]
           /\ hop' = [HookOp("setState", "none")
                         EXCEPT !.by = by, !.store = s,
                                !.next = args.next, !.prev = args.prev,
                                !.kicked = kicked]
    /\ UNCHANGED storeVars

\* The store variables of the first part stay at new Store(0).
InitHook ==
    /\ HookIdle
    /\ state = 0
    /\ op = [Op("init") EXCEPT !.arg = PlainUpdate(0)]
    /\ callbacks = <<>>
    /\ handles = <<>>
    /\ stack = <<>>
    /\ finished = NoFrame

\* The steps of the components cs on the stores ss, with shouldUpdate
\* taken from sus.
HookStep(cs, ss, sus) ==
    \/ \E c \in cs, s \in ss, su \in sus : Render(c, s, su)
    \/ \E c \in cs : RenderThrow(c, NotAStore)
    \/ \E c \in cs : RunEffects(c)
    \/ \E c \in cs : Unmount(c)
    \/ \E by \in cs \cup {"app"}, s \in ss, u \in Updates :
          Mutate(by, s, u)

\* One component, bound to either store.
NextHook == HookStep({"c1"}, StoreIds, ShouldUpdates)

SpecHook == InitHook /\ [][NextHook]_vars

\* One component that stays on one store while its shouldUpdate changes.
NextToggle == HookStep({"c1"}, {"s1"}, ShouldUpdates)

SpecToggle == InitHook /\ [][NextToggle]_vars

\* Two components sharing one store: c1 only uses the setState it gets
\* (bound with false), c2 shows the state (bound with true).
NextShared ==
    \/ HookStep({"c1"}, {"s1"}, {"false"})
    \/ HookStep({"c2"}, {"s1"}, {"true"})

SpecShared == InitHook /\ [][NextShared]_vars

\* ================================================================ claims
\* The calls whose history the state holds: those in progress and the one
\* that has just ended.
Frames ==
    {stack[k] : k \in 1..Len(stack)}
        \cup (IF finished.status = "none" THEN {} ELSE {finished})

\* The callbacks a call has invoked so far, in order.
InvokedCbs(f) == [k \in 1..Len(f.invoked) |-> f.invoked[k].cb]

\* No subscribe and no unsubscribe ran while the call was in progress.
Untouched(f) == ~f.added /\ f.removedSelf = {} /\ ~f.removedOther

Without(s, cb) == SelectSeq(s, LAMBDA x : x # cb)

\* C1: a setState(x) whose callbacks leave the list alone and do not throw
\* invokes every observer registered when it was called exactly once, in
\* registration order, each with (x, the state held at the call); while the
\* call is in progress the observers invoked so far are a prefix of them.
C1_NotifyEachOnceInOrder ==
    \A f \in Frames :
        Untouched(f) =>
            /\ Len(f.invoked) <= Len(f.snap)
            /\ InvokedCbs(f) = SubSeq(f.snap, 1, Len(f.invoked))
            /\ f.status = "done" => Len(f.invoked) = Len(f.snap)
            /\ \A k \in 1..Len(f.invoked) :
                  /\ f.invoked[k].prev = f.before
                  /\ f.update.kind = "value" => f.invoked[k].next = f.update.v

C1_Witness ==
    /\ finished.status = "done"
    /\ Untouched(finished)
    /\ Len(finished.snap) >= 2
    /\ Cardinality(Range(finished.snap)) >= 2
    /\ finished.update.kind = "value"
    /\ finished.update.v # finished.before
    /\ Len(finished.invoked) = Len(finished.snap)

\* C2: getState() returns the constructor's argument right after
\* construction, and the value given to the most recent setState(value),
\* during that call's notification round and after it (however it ended),
\* when no callback of the round has called setState.
C2_GetStateLatest ==
    /\ op.name = "init" => getState = op.arg.v
    /\ \A f \in Frames :
          (f.update.kind = "value" /\ ~f.nested) => getState = f.update.v

C2_Witness ==
    /\ finished.status = "done"
    /\ finished.update.kind = "value"
    /\ finished.update.v # finished.before
    /\ getState = finished.update.v
    /\ Len(finished.invoked) >= 1

\* C3: setState(f) with the state at v makes the state f(v), and every
\* observer invoked receives (f(v), v).
C3_UpdaterApplied ==
    \A f \in Frames :
        f.update.kind = "fn" =>
            /\ ~f.nested => getState = ApplyUpdater(f.update.f, f.before)
            /\ \A k \in 1..Len(f.invoked) :
                  /\ f.invoked[k].next = ApplyUpdater(f.update.f, f.before)
                  /\ f.invoked[k].prev = f.before

C3_Witness ==
    /\ finished.status = "done"
    /\ finished.update.kind = "fn"
    /\ Len(finished.invoked) >= 2
    /\ getState = ApplyUpdater(finished.update.f, finished.before)
    /\ getState # finished.before

\* A callback is detached when one of its unsubscribe closures has been
\* called and it has not been subscribed again since.
Detached(cb) ==
    \E h \in 1..Len(handles) : handles[h].cb = cb /\ handles[h].st = "spent"

\* C4: a detached callback is not in the list and no step invokes it; and an
\* unsubscribe leaves the entries of every other callback in the list, in
\* their order (so they are invoked by the following setState calls, C1).
C4_UnsubscribedNeverInvoked ==
    [][/\ \A cb \in Callbacks : Detached(cb)' => cb \notin Range(callbacks')
       /\ (InLoop /\ op'.name \in {"invoke", "subscribe", "unsubscribe", "throw"})
             => ~Detached(Cur)
       /\ op'.name = "unsubscribe" =>
             Without(callbacks', handles[op'.h].cb)
                = Without(callbacks, handles[op'.h].cb)]_vars

\* The reference test's last step: B unsubscribed, then a setState that
\* invokes A and not B.
C4_Witness ==
    /\ finished.status = "done"
    /\ Untouched(finished)
    /\ Len(finished.invoked) >= 1
    /\ \E h \in 1..Len(handles) :
          /\ handles[h].st = "spent"
          /\ handles[h].cb \notin Range(InvokedCbs(finished))
          /\ \E g \in 1..Len(handles) : handles[g].cb # handles[h].cb

\* C5: when a callback has k >= 2 entries in the list, calling any of its
\* unsubscribe closures removes all k of them and nothing else.
C5_UnsubscribeRemovesAllDuplicates ==
    (op.name = "unsubscribe" /\ op.had >= 2) =>
        /\ Count(callbacks, handles[op.h].cb) = 0
        /\ Len(callbacks) = op.len - op.had

\* The closure returned by the first of two subscribe(cb) calls removes both.
C5_Witness ==
    /\ op.name = "unsubscribe"
    /\ op.had >= 2
    /\ op.len > op.had
    /\ \E g \in (op.h + 1)..Len(handles) :
          handles[g].cb = handles[op.h].cb /\ handles[g].st = "fresh"
    /\ Count(callbacks, handles[op.h].cb) = 0

\* C6 (as claimed): notification iterates a snapshot, so a call invokes no
\* callback more often than it was registered when the call began.
C6_SnapshotExcludesNewObservers ==
    \A f \in Frames :
        \A cb \in Callbacks : Count(InvokedCbs(f), cb) <= Count(f.snap, cb)

\* C7 (as claimed): when callbacks unregister themselves during a round and
\* nothing else changes the list, every other observer registered when the
\* call began is invoked exactly once per registration.
C7_SelfUnsubscribeKeepsOthers ==
    (/\ finished.status = "done"
     /\ finished.removedSelf # {}
     /\ ~finished.added
     /\ ~finished.removedOther)
        => \A cb \in Callbacks \ finished.removedSelf :
              Count(InvokedCbs(finished), cb) = Count(finished.snap, cb)

\* C8: a setState(x) with x equal to the current state still invokes every
\* registered observer once (callbacks leaving the list alone, none throwing).
C8_NotifyWhenUnchanged ==
    (/\ finished.status = "done"
     /\ Untouched(finished)
     /\ finished.update.kind = "value"
     /\ finished.update.v = finished.before)
        => InvokedCbs(finished) = finished.snap

C8_Witness ==
    /\ finished.status = "done"
    /\ Untouched(finished)
    /\ finished.update.kind = "value"
    /\ finished.update.v = finished.before
    /\ getState = finished.before
    /\ Len(finished.snap) >= 2
    /\ InvokedCbs(finished) = finished.snap

\* C9: when a callback throws, the setState call that invoked it ends there
\* (the exception leaves it, and every enclosing call up to one whose
\* caller catches it): the thrower is the last callback the call invoked and
\* the observers after it are not invoked.
C9_ThrowAbortsRound ==
    op.name = "throw" =>
        /\ finished.status = "thrown"
        /\ ~finished.guarded => stack = <<>>
        /\ Len(finished.invoked) = finished.i - 1
        /\ Untouched(finished) =>
              InvokedCbs(finished) = SubSeq(finished.snap, 1, finished.i - 1)

\* A round of two or more observers whose first observer throws.
C9_Witness ==
    /\ op.name = "throw"
    /\ finished.status = "thrown"
    /\ Untouched(finished)
    /\ Len(finished.invoked) < Len(finished.snap)
    /\ finished.i <= Len(callbacks)

\* C10 (as claimed): calling an unsubscribe closure that has been called
\* before leaves the list unchanged, also when its callback has been
\* subscribed again in between.
C10_SecondCallNoOp ==
    (op.name = "unsubscribe" /\ op.was \in {"spent", "revived"}) =>
        Len(callbacks) = op.len

\* C10 (amended): calling an unsubscribe closure again is a no-op as long as
\* its callback has not been subscribed again since the closure's last call;
\* if it has, the call removes every entry of the callback once more.
C10_SecondCallNoOpUnlessResubscribed ==
    /\ (op.name = "unsubscribe" /\ op.was = "spent") =>
          /\ op.had = 0
          /\ Len(callbacks) = op.len
    /\ (op.name = "unsubscribe" /\ op.was = "revived") =>
          /\ Count(callbacks, handles[op.h].cb) = 0
          /\ Len(callbacks) = op.len - op.had

\* A closure called a second time while other callbacks are registered.
C10_Witness ==
    /\ op.name = "unsubscribe"
    /\ op.was = "spent"
    /\ op.len >= 1
    /\ Len(callbacks) = op.len

\* ------------------------------------------------------ claims: useStore
\* Component c has a callback in the list of some store.
Listed(c) ==
    \E s \in StoreIds :
        \E k \in 1..Len(stores[s].callbacks) : stores[s].callbacks[k].c = c

\* Component c is bound with shouldUpdate = su: its effect last ran for a
\* render with that argument.
BoundWith(c, su) == comps[c].phase # "unmounted" /\ comps[c].deps.su = su

\* C11: a component bound with shouldUpdate = false never subscribes: the
\* effect that binds it adds no callback to any store's list, the lists
\* hold no callback of it while it is bound that way, and no setState on
\* any store calls its setRevision or changes its revision.
C11_FalseNeverSubscribes ==
    [][\A c \in Components :
          (comps'[c].phase # "unmounted" /\ comps'[c].deps.su = "false") =>
              /\ \A s \in StoreIds :
                    \A k \in 1..Len(stores'[s].callbacks) :
                        stores'[s].callbacks[k].c # c
              /\ comps'[c].sub = NoSub
              /\ (hop'.name = "effect" /\ hop'.c = c) =>
                    \A s \in StoreIds :
                        Len(stores'[s].callbacks) <= Len(stores[s].callbacks)
              /\ hop'.name = "setState" =>
                    /\ c \notin hop'.kicked
                    /\ comps'[c].revision = comps[c].revision
                    /\ comps'[c].dirty = comps[c].dirty]_vars

\* The store of a component bound with false has just changed its state.
C11_Witness ==
    /\ BoundWith("c1", "false")
    /\ comps["c1"].phase = "committed"
    /\ hop.name = "setState"
    /\ hop.store = comps["c1"].store
    /\ hop.next # hop.prev

\* The step is the effect of component c associating it: [store,
\* shouldUpdate] are new (first bind or changed key) and shouldUpdate is
\* truthy.
Associates(c) ==
    /\ hop'.name = "effect"
    /\ hop'.c = c
    /\ DepsChanged(comps[c])
    /\ Subscribes(comps[c].su)

\* C12: the effect that associates a component (first bind or changed key,
\* truthy shouldUpdate) calls setRevision(Math.random()) exactly once,
\* whether or not the store is ever changed, and on a first bind React has
\* a re-render pending afterwards; apart from that, setRevision is called
\* and the revision changes only in a step of Store.setState: renders and
\* effects with an unchanged key force nothing.
C12_OneSyncOnAssociation ==
    [][\A c \in Components :
          /\ Associates(c) =>
                /\ hop'.kicked = {c}
                /\ comps'[c].revision \in Randoms
                /\ comps'[c].inited
                /\ comps'[c].dirty =
                       (comps[c].dirty \/ comps'[c].revision # comps[c].revision)
                /\ comps[c].revision = -1 => comps'[c].dirty
          /\ (c \in hop'.kicked \/ comps'[c].revision # comps[c].revision
                  \/ (comps'[c].dirty /\ ~comps[c].dirty)) =>
                \/ Associates(c)
                \/ hop'.name = "setState"
                \/ hop'.name = "unmount" /\ hop'.c = c]_vars

\* The effect has just associated the component and a re-render is
\* pending, while every store still holds its initial state.
C12_Witness ==
    /\ hop.name = "effect"
    /\ hop.kicked = {"c1"}
    /\ comps["c1"].dirty
    /\ comps["c1"].inited
    /\ \A s \in StoreIds : stores[s].state = 0

\* C13: when Store.setState notifies (next, prev), a component subscribed
\* to that store has its setRevision called if and only if its
\* shouldUpdate is true or is a function that returns truthy on
\* (next, prev); otherwise the notification is absorbed: revision and
\* pending re-render stay as they were.  In steady state (effects run) the
\* shouldUpdate that decides is the one of the last render.
C13_AdvanceIffResponds ==
    [][\A c \in Components :
          (hop'.name = "setState" /\ comps[c].sub # NoSub
              /\ comps[c].sub.store = hop'.store) =>
              /\ c \in hop'.kicked <=>
                     \/ comps[c].sub.su = "true"
                     \/ /\ comps[c].sub.su = "p1"
                        /\ hop'.next # hop'.prev
              /\ c \in hop'.kicked =>
                     /\ comps'[c].revision \in Randoms
                     /\ comps'[c].dirty =
                            (comps[c].dirty
                                \/ comps'[c].revision # comps[c].revision)
              /\ c \notin hop'.kicked =>
                     /\ comps'[c].revision = comps[c].revision
                     /\ comps'[c].dirty = comps[c].dirty
              /\ comps[c].phase = "committed" =>
                     comps[c].sub.su = comps[c].su]_vars

\* A component bound with the predicate has just absorbed a notification
\* with next = prev: no re-render is pending.
C13_Witness ==
    /\ hop.name = "setState"
    /\ comps["c1"].phase = "committed"
    /\ comps["c1"].sub # NoSub
    /\ comps["c1"].sub.su = "p1"
    /\ comps["c1"].sub.store = hop.store
    /\ hop.next = hop.prev
    /\ hop.kicked = {}
    /\ ~comps["c1"].dirty

\* The shouldUpdate a component passes when it is rendered again after it
\* has passed su: the same value, or for an inline function a new function
\* object.  An effect runs after every render, so its dependencies hold the
\* object of the render before, and two objects are enough to tell the new
\* one from it.
NextInstance(su) ==
    IF su = "q1" THEN "q2" ELSE IF su = "q2" THEN "q1" ELSE su

\* React re-renders a component whose revision setRevision has changed:
\* the component function runs again and passes the same store and the
\* same shouldUpdate expression.
Rerender(c) ==
    /\ comps[c].dirty
    /\ Render(c, comps[c].store, NextInstance(comps[c].su))

\* React does run the effects of a render and does re-render a component
\* whose state has changed.
SpecHookFair ==
    /\ SpecHook
    /\ WF_vars(RunEffects("c1"))
    /\ WF_vars(Rerender("c1"))

\* The first render of component c has returned a state that its store no
\* longer holds, and its effect (with a truthy shouldUpdate) has not run.
MissedBeforeSubscribe(c) ==
    /\ comps[c].phase = "rendered"
    /\ comps[c].deps = NoDeps
    /\ Subscribes(comps[c].su)
    /\ comps[c].shown # ReadState(comps[c].store)

\* Component c, whose effect has run, has just been rendered again and has
\* returned the state its store holds.
RenderedCurrent(c) ==
    /\ hop.name = "render"
    /\ hop.c = c
    /\ comps[c].deps # NoDeps
    /\ comps[c].shown = ReadState(comps[c].store)

\* C14: when the store is changed after the first render of a component
\* has read its state and before the effect has subscribed, the component
\* is rendered again after the effect has run (unless it is unmounted
\* first) and that render returns the store's current state.
C14_MissedUpdateRecovered ==
    \A c \in {"c1"} :
        MissedBeforeSubscribe(c) ~>
            (RenderedCurrent(c) \/ comps[c].phase = "unmounted")

\* A store has just been changed between the first render and the effect.
C14_Witness ==
    /\ MissedBeforeSubscribe("c1")
    /\ hop.name = "setState"
    /\ hop.store = comps["c1"].store
    /\ comps["c1"].revision = -1

\* C15: a teardown (the cleanup run by the effect after a key change, or by
\* the removal of the component) takes the component's callback out of the
\* list of the store it was subscribed to and clears initedRef.current (if
\* the same effect run subscribes again, the flag is set again by a new
\* call of setRevision); a removed component has no callback in any list,
\* and no later setState calls its setRevision or changes its revision.
C15_TeardownUnsubscribes ==
    [][\A c \in Components :
          /\ (hop'.name \in {"effect", "unmount"} /\ hop'.c = c
                 /\ hop'.torn # NoSub) =>
                /\ hop'.torn = comps[c].sub
                /\ Count(stores[hop'.torn.store].callbacks, hop'.torn) = 1
                /\ Count(stores'[hop'.torn.store].callbacks, hop'.torn) = 0
                /\ comps'[c].sub # hop'.torn
                /\ comps'[c].sub = NoSub => ~comps'[c].inited
                /\ comps'[c].sub # NoSub => hop'.kicked = {c}
          /\ comps'[c].phase = "unmounted" =>
                /\ \A s \in StoreIds :
                      \A k \in 1..Len(stores'[s].callbacks) :
                          stores'[s].callbacks[k].c # c
                /\ ~comps'[c].inited
                /\ hop'.name = "setState" =>
                      /\ c \notin hop'.kicked
                      /\ comps'[c].revision = comps[c].revision
                      /\ comps'[c].dirty = comps[c].dirty]_vars

\* A component subscribed with the predicate has just been removed.
C15_Witness ==
    /\ comps["c1"].phase = "unmounted"
    /\ hop.name = "unmount"
    /\ hop.c = "c1"
    /\ hop.torn # NoSub
    /\ hop.torn.su = "p1"

\* C16: when the effect of a component bound with a falsy shouldUpdate
\* runs for a truthy one and the same store (so also after truthy, falsy,
\* truthy), it subscribes again, one new callback at the end of the store's
\* list, and calls setRevision(Math.random()) once.
C16_ResubscribeAfterFalsy ==
    [][\A c \in Components :
          (hop'.name = "effect" /\ hop'.c = c
              /\ comps[c].deps.su = "false"
              /\ comps[c].deps.store = comps[c].store
              /\ Subscribes(comps[c].su)) =>
              /\ comps'[c].sub = Closure(c, comps[c])
              /\ stores'[comps[c].store].callbacks =
                     Append(stores[comps[c].store].callbacks, comps'[c].sub)
              /\ Count(stores'[comps[c].store].callbacks, comps'[c].sub) = 1
              /\ hop'.kicked = {c}
              /\ comps'[c].inited
              /\ comps'[c].revision \in Randoms
              /\ comps'[c].dirty =
                     (comps[c].dirty
                         \/ comps'[c].revision # comps[c].revision)]_vars

\* The effect has just subscribed a component that was bound with false
\* and, before that, with true (its revision was no longer -1), all on the
\* one store; a re-render is pending.
C16_Witness ==
    /\ hop.name = "effect"
    /\ hop.c = "c1"
    /\ hop.from = [store |-> "s1", su |-> "false"]
    /\ hop.rev # -1
    /\ hop.kicked = {"c1"}
    /\ comps["c1"].sub = [c |-> "c1", store |-> "s1", su |-> "true"]
    /\ comps["c1"].dirty

\* C17: when a component bound with false calls the setState it got from
\* useStore, every other mounted component last rendered with true for the
\* same store has its setRevision called in that step (React then has a
\* re-render of it pending, unless the draw is the value already held) or,
\* if its effect is still to run, will have it called by that effect; the
\* caller's own setRevision is not called and its revision stays; and any
\* render returns the state the store holds at that moment.
C17_SetterNotifiesOthersOnly ==
    [][\A c \in Components :
          /\ (hop'.name = "setState" /\ hop'.by = c
                 /\ comps[c].phase # "unmounted"
                 /\ comps[c].deps.su = "false") =>
                /\ stores'[hop'.store].state = hop'.next
                /\ c \notin hop'.kicked
                /\ comps'[c].revision = comps[c].revision
                /\ comps'[c].dirty = comps[c].dirty
                /\ \A d \in Components \ {c} :
                      (comps[d].phase # "unmounted" /\ comps[d].su = "true"
                          /\ comps[d].store = hop'.store) =>
                          \/ /\ d \in hop'.kicked
                             /\ comps'[d].revision \in Randoms
                             /\ comps'[d].dirty =
                                    (comps[d].dirty \/
                                     comps'[d].revision # comps[d].revision)
                          \/ /\ comps'[d].phase = "rendered"
                             /\ Syncs(comps'[d])
          /\ (hop'.name = "render" /\ hop'.c = c) =>
                comps'[c].shown = stores'[comps'[c].store].state]_vars

\* The component bound with false has just changed the store through its
\* setState; the other one, bound with true and showing the old state, has
\* a re-render pending and the caller has none.
C17_Witness ==
    /\ hop.name = "setState"
    /\ hop.by = "c1"
    /\ BoundWith("c1", "false")
    /\ comps["c1"].phase = "committed"
    /\ ~comps["c1"].dirty
    /\ BoundWith("c2", "true")
    /\ comps["c2"].phase = "committed"
    /\ hop.kicked = {"c2"}
    /\ comps["c2"].dirty
    /\ hop.next # hop.prev
    /\ comps["c2"].shown = hop.prev

\* C18: every call of useStore returns the state its store holds at that
\* moment (store.getState() is called in each render, nothing is cached).
C18_StateReadFresh ==
    (hop.name = "render") =>
        /\ comps[hop.c].phase = "rendered"
        /\ comps[hop.c].store = hop.store
        /\ comps[hop.c].shown = stores[hop.store].state

\* A component rendered before has just been rendered again after its
\* store had been changed without notifying it (bound with false).
C18_Witness ==
    /\ hop.name = "render"
    /\ hop.c = "c1"
    /\ ~hop.recomputed
    /\ comps["c1"].deps = [store |-> hop.store, su |-> "false"]
    /\ comps["c1"].shown = 1
    /\ comps["c1"].revision = -1

\* C19: the setState that useStore returns is made again (a new function
\* identity) only by the first render of a component and by a render whose
\* store differs from that of the render before, whatever shouldUpdate is;
\* it is bound to the store of the render, and calling it changes the state
\* of that store and of no other.
C19_SetterStablePerStore ==
    [][\A c \in Components :
          /\ (hop'.name = "render" /\ hop'.c = c) =>
                /\ hop'.recomputed <=>
                       \/ comps[c].phase = "unmounted"
                       \/ comps[c].store # hop'.store
                /\ comps'[c].setter = hop'.store
                /\ ~hop'.recomputed => comps'[c].setter = comps[c].setter
          /\ (hop'.name = "setState" /\ hop'.by = c) =>
                /\ hop'.store = comps[c].setter
                /\ stores'[comps[c].setter].state = hop'.next
                /\ \A s \in StoreIds \ {comps[c].setter} :
                      stores'[s] = stores[s]
          /\ hop'.name \notin {"render", "unmount"} =>
                comps'[c].setter = comps[c].setter]_vars

\* A component has just been rendered with the store of its last effect
\* and another shouldUpdate: the setState it returns is the one it had.
C19_Witness ==
    /\ hop.name = "render"
    /\ hop.c = "c1"
    /\ ~hop.recomputed
    /\ comps["c1"].deps.store = hop.store
    /\ comps["c1"].deps.su # comps["c1"].su
    /\ comps["c1"].setter = hop.store

\* C20: a call of useStore with an argument that is not a store throws at
\* once: the call adds or removes no callback in any store's list, changes
\* no state of a store and no cell of the component (revision, pending
\* re-render, initedRef, subscription), and no render goes on with such an
\* argument.
C20_InvalidStoreThrowsFirst ==
    [][/\ hop'.name = "renderThrow" =>
             /\ ~IsStore(hop'.store)
             /\ stores' = stores
             /\ comps' = comps
       /\ hop'.name = "render" => IsStore(hop'.store)]_vars

\* A mounted and subscribed component has just been called with something
\* that is not a store.
C20_Witness ==
    /\ hop.name = "renderThrow"
    /\ hop.c = "c1"
    /\ hop.store = NotAStore
    /\ comps["c1"].phase = "committed"
    /\ comps["c1"].sub # NoSub
    /\ Listed("c1")

\* C21: the setState a component got from useStore still works after the
\* component has been removed: the call assigns the new state to its store,
\* calls no setRevision of the removed component and leaves it as it is;
\* and the first render of a component that mounts (again) returns the
\* state its store holds then, with the hook's cells at their initial
\* values.
C21_SetterOutlivesComponent ==
    [][\A c \in Components :
          /\ (hop'.name = "setState" /\ hop'.by = c
                 /\ comps[c].phase = "unmounted") =>
                /\ hop'.store = comps[c].setter
                /\ hop'.prev = stores[comps[c].setter].state
                /\ stores'[comps[c].setter].state = hop'.next
                /\ c \notin hop'.kicked
                /\ comps'[c] = comps[c]
          /\ (hop'.name = "render" /\ hop'.c = c
                 /\ comps[c].phase = "unmounted") =>
                /\ comps'[c].shown = stores'[hop'.store].state
                /\ comps'[c].revision = -1
                /\ ~comps'[c].dirty
                /\ ~comps'[c].inited]_vars

\* A removed component's setState has just changed the state of its store.
C21_Witness ==
    /\ comps["c1"].phase = "unmounted"
    /\ hop.name = "setState"
    /\ hop.by = "c1"
    /\ hop.next # hop.prev
    /\ stores[hop.store].state = hop.next

\* C22: while a setState call made by a callback is in progress, the calls
\* below it on the stack do not move (their iterator and their invocations
\* stay); the nested call returns only when its own loop is exhausted; and
\* every call, also one that resumes after a nested call, invokes callbacks
\* with its own nextState and prevState, which are the update applied to
\* the state it found and that state.
C22_NestedRoundRunsFirst ==
    [][/\ \A k \in 1..Len(stack) :
             (k < Len(stack) /\ k <= Len(stack')) =>
                 /\ stack'[k].i = stack[k].i
                 /\ stack'[k].invoked = stack[k].invoked
                 /\ stack[k].nested
       /\ (op'.name = "return" /\ Len(stack) >= 2) =>
             /\ finished'.status = "done"
             /\ finished'.i > Len(callbacks)
             /\ stack' = Front(stack)
       /\ \A k \in 1..Len(stack') :
             /\ stack'[k].prevState = stack'[k].before
             /\ stack'[k].nextState =
                    ComputeNext(stack'[k].update, stack'[k].before)
             /\ \A j \in 1..Len(stack'[k].invoked) :
                   /\ stack'[k].invoked[j].next = stack'[k].nextState
                   /\ stack'[k].invoked[j].prev = stack'[k].prevState]_vars

\* An outer call has just invoked a further callback after a nested call
\* had left the store with another state than the outer call's nextState.
C22_Witness ==
    /\ op.name = "invoke"
    /\ Len(stack) = 1
    /\ Top.nested
    /\ Len(Top.invoked) >= 2
    /\ state # Top.nextState
    /\ Top.invoked[Len(Top.invoked)].next = Top.nextState
    /\ Top.invoked[Len(Top.invoked)].prev = Top.prevState

\* C23 (as claimed): no setState call is in progress while the notification
\* round of another one is.
C23_NoCallDuringRound == Len(stack) <= 1

\* C23 (amended): a setState call made from outside any callback starts
\* when no call is in progress; the only calls that start during a round
\* are those made by the callback the round is invoking, and the round
\* waits for them: the calls in progress are nested in one another.
C23_OnlyNestedCallsOverlap ==
    [][/\ op'.name = "setState" =>
             \/ /\ stack = <<>>
                /\ Len(stack') = 1
                /\ ~stack'[1].nested
             \/ /\ InLoop
                /\ Len(stack') = Len(stack) + 1
                /\ stack'[Len(stack)].i = Top.i + 1
                /\ stack'[Len(stack)].nested
                /\ stack'[Len(stack)].invoked = Append(Top.invoked, Invocation)
       /\ \A k \in 1..Len(stack') :
             k < Len(stack') =>
                 /\ stack'[k].nested
                 /\ stack'[k].status = "running"
                 /\ Len(stack'[k].invoked) >= 1]_vars

\* A callback of a round in progress has just called setState.
C23_Witness ==
    /\ op.name = "setState"
    /\ Len(stack) = 2
    /\ stack[1].nested
    /\ stack[2].invoked = <<>>
    /\ stack[2].before = stack[1].nextState
    /\ stack[2].nextState # stack[1].nextState

\* C24 (as claimed): every call of setRevision gives the revision a value
\* that differs from the one held and is later than it, so React has a
\* re-render of the component pending after each of them.
C24_TokenAdvances ==
    \A c \in hop.kicked :
        /\ comps[c].dirty
        /\ hop.name = "effect" => comps[c].revision > hop.rev

\* C25: subscribe(cb) appends one entry, cb, at the end of the list and
\* leaves the state alone; called from outside a round it starts no call
\* and invokes nobody, called by a callback it adds no invocation beyond
\* that of the callback calling it.  An unsubscribe closure takes out the
\* entries of its own callback and leaves the state and the entries of all
\* other callbacks, in their order.
C25_SubscribeUnsubscribeFrame ==
    [][/\ op'.name = "subscribe" =>
             /\ callbacks' = Append(callbacks, handles'[op'.h].cb)
             /\ state' = state
             /\ stack = <<>> => stack' = <<>>
             /\ stack # <<>> =>
                   /\ Len(stack') = Len(stack)
                   /\ stack'[Len(stack)].invoked = Append(Top.invoked, Invocation)
       /\ op'.name = "unsubscribe" =>
             /\ Count(callbacks', handles[op'.h].cb) = 0
             /\ Without(callbacks', handles[op'.h].cb)
                   = Without(callbacks, handles[op'.h].cb)
             /\ Len(callbacks') = Len(callbacks) - Count(callbacks, handles[op'.h].cb)
             /\ state' = state
             /\ stack = <<>> => stack' = <<>>]_vars

\* The reference test: two callbacks subscribed, the closure of the second
\* called outside any round, one callback left (the first).
C25_Witness ==
    /\ op.name = "unsubscribe"
    /\ stack = <<>>
    /\ op.len = 2
    /\ op.had = 1
    /\ Len(handles) = 2
    /\ op.h = 2
    /\ callbacks = <<handles[1].cb>>
    /\ handles[1].cb # handles[2].cb

\* The places <<store, position>> of the callbacks of component c.
EntriesOf(c) ==
    {p \in UNION {{<<s, k>> : k \in 1..Len(stores[s].callbacks)} :
                     s \in StoreIds} :
        stores[p[1]].callbacks[p[2]].c = c}

\* C26: the lists of all stores together hold at most one callback of a
\* component; they hold one exactly when the component is mounted and its
\* effect has last run with a truthy shouldUpdate, and it is then the
\* callback of that run, in the list of that run's store.  Between steps a
\* component is either unsubscribed (no subscription, initedRef false) or
\* subscribed and synced (subscription, initedRef true); subscribed with
\* initedRef false exists only inside the effect.
C26_AtMostOneCallback ==
    \A c \in Components :
        /\ Cardinality(EntriesOf(c)) <= 1
        /\ Cardinality(EntriesOf(c)) = 1 <=>
               /\ comps[c].phase # "unmounted"
               /\ comps[c].deps # NoDeps
               /\ Subscribes(comps[c].deps.su)
        /\ \A p \in EntriesOf(c) :
               /\ p[1] = comps[c].deps.store
               /\ stores[p[1]].callbacks[p[2]] = comps[c].sub
               /\ comps[c].sub =
                      [c |-> c, store |-> comps[c].deps.store,
                       su |-> comps[c].deps.su]
        /\ \/ comps[c].sub = NoSub /\ ~comps[c].inited
           \/ comps[c].sub # NoSub /\ comps[c].inited
                 /\ EntriesOf(c) # {}

\* The component, subscribed before to the other store, is subscribed to
\* s2 with the predicate; s1 holds nothing of it.
C26_Witness ==
    /\ hop.name = "effect"
    /\ hop.torn # NoSub
    /\ hop.torn.store = "s1"
    /\ comps["c1"].sub = [c |-> "c1", store |-> "s2", su |-> "p1"]
    /\ stores["s2"].callbacks = <<comps["c1"].sub>>
    /\ stores["s1"].callbacks = <<>>

\* ---------------------------------------------------------------- C27

\* One component on one store, driven by React alone once it is mounted:
\* it is mounted with one of four shouldUpdate arguments (the last an
\* inline function), React runs its effects and re-renders it when its
\* revision has changed; the application may change the store or unmount
\* the component.
Mount(c, s, su) ==
    /\ comps[c].phase = "unmounted"
    /\ Render(c, s, su)

NextInline ==
    \/ \E su \in {"false", "true", "p1", "q1"} : Mount("c1", "s1", su)
    \/ Rerender("c1")
    \/ RunEffects("c1")
    \/ Unmount("c1")
    \/ \E u \in Updates : Mutate("app", "s1", u)

SpecInline ==
    /\ InitHook
    /\ [][NextInline]_vars
    /\ WF_vars(RunEffects("c1"))
    /\ WF_vars(Rerender("c1"))

\* React has nothing left to do for component c.
Quiescent(c) ==
    /\ comps[c].phase # "rendered"
    /\ ~comps[c].dirty

\* C27: a component stops being rendered: from some point on React has
\* nothing left to do for it, unless the store is changed or the component
\* is unmounted again and again; this for every shouldUpdate, an inline
\* function included.
C27_RendersEnd ==
    \/ <>[]Quiescent("c1")
    \/ []<>(hop.name \in {"setState", "unmount"})

\* ---------------------------------------------------------------- C28

\* C28: when a setState call made from outside any notification round has
\* returned normally, every registered observer the call has notified was
\* last called with the state the store now holds, also when an observer
\* called setState during the round.
C28_LastDeliveredCurrent ==
    (finished.status = "done" /\ stack = <<>>) =>
        \A cb \in Range(callbacks) \cap Range(InvokedCbs(finished)) :
            handles[LatestHandle(handles, cb)].last = state

\* ---------------------------------------------------------------- C29

\* C29: an observer registered once is called with a prevState equal to
\* the nextState of its previous notification, and on its first
\* notification equal to the state the store held when it subscribed.
C29_UnbrokenChain ==
    [][(InLoop /\ Count(callbacks, Cur) = 1) =>
          CallbackArgs(Top).prev
              = handles[LatestHandle(handles, Cur)].last]_vars

\* ---------------------------------------------------------------- C30

\* The observers behind the one the call in progress is invoking.
Later == SubSeq(callbacks, Top.i + 1, Len(callbacks))

\* C30: when a callback throws, the store keeps the state the setState
\* call assigned and the list of observers is what it was before the
\* throw (the list of the call's start when no callback changed it); the
\* observers behind the thrower have not been called with the new state.
C30_ThrowKeepsStateAndList ==
    [][op'.name = "throw" =>
          /\ state' = finished'.nextState
          /\ callbacks' = callbacks
          /\ Untouched(finished') => callbacks' = finished'.snap
          /\ \A cb \in Range(Later) \ Range(InvokedCbs(finished')) :
                handles'[LatestHandle(handles, cb)].last
                    = handles[LatestHandle(handles, cb)].last]_vars

\* The first of two observers has thrown on a setState that changed the
\* state: the store holds the new state and the second observer has not
\* been called.
C30_Witness ==
    /\ op.name = "throw"
    /\ finished.status = "thrown"
    /\ finished.nextState # finished.prevState
    /\ state = finished.nextState
    /\ callbacks = finished.snap
    /\ Len(callbacks) = 2
    /\ Len(finished.invoked) = 1
    /\ callbacks[1] # callbacks[2]
    /\ handles[LatestHandle(handles, callbacks[2])].last = finished.prevState

\* ---------------------------------------------------------------- C31

\* An updater that throws: state => { throw new Error() }.
Throwers == {"boom"}

ThrowingUpdates == [kind : {"fn"}, v : {0}, f : Throwers]

\* `update instanceof Function ? update(this.state) : update`: the
\* updater is called, and throws.
UpdaterThrows(update) == update.kind = "fn" /\ update.f \in Throwers

\* Faulty variant: setState catches the updater's exception and goes on with
\* the state unchanged, notifying the observers.
RoundAfterUpdaterThrowSwallowed(stk, update) ==
    Append(stk, NewFrame(PlainUpdate(state), FALSE))

\* The exception leaves setState from the second statement: the
\* assignment and the loop are not reached, no round begins.
RoundAfterUpdaterThrow(stk, update) == stk

\* setState(update) called from outside any notification round with an
\* updater that throws.
SetStateThrow(update) ==
    /\ Idle
    /\ UpdaterThrows(update)
    /\ stack' = RoundAfterUpdaterThrow(stack, update)
    /\ op' = [Op("updaterThrow") EXCEPT !.arg = update,
                                        !.len = Len(callbacks)]
    /\ finished' = NoFrame
    /\ UNCHANGED <<state, callbacks, handles, hookVars>>

\* The store used from outside, with updaters that throw among the
\* arguments of setState.
NextThrowing ==
    \/ Next
    \/ \E u \in ThrowingUpdates : SetStateThrow(u)

SpecThrowing == Init /\ [][NextThrowing]_vars

\* C31: a setState call whose updater throws leaves the state and the list
\* of observers as they were and invokes no observer: no round begins and
\* no observer's last notification changes.
C31_UpdaterThrowChangesNothing ==
    [][op'.name = "updaterThrow" =>
          /\ state' = state
          /\ callbacks' = callbacks
          /\ stack' = <<>>
          /\ \A h \in 1..Len(handles) : handles'[h].last = handles[h].last]_vars

\* setState has just been called with a throwing updater on a store with
\* two observers, each of which last saw the state the store holds.
C31_Witness ==
    /\ op.name = "updaterThrow"
    /\ UpdaterThrows(op.arg)
    /\ op.len = 2
    /\ Len(callbacks) = 2
    /\ stack = <<>>
    /\ \A k \in 1..2 :
          handles[LatestHandle(handles, callbacks[k])].last = state

====
